---- MODULE Spec2Model ----
(***************************************************************************)
(* A model of advanced-vector/vector.h: RawMemory<T> (a raw block owner)   *)
(* and Vector<T> (live range [0, size_) inside the block).                 *)
(*                                                                         *)
(* The heap is explicit: a block is a sequence of cells, a cell is either  *)
(* Raw (no object lives there) or the value of the live object.  A vector  *)
(* is the triple (buffer_, capacity_, size_).  Indexes are 0-based as in   *)
(* the source; cell k of a block is element k+1 of its sequence.           *)
(*                                                                         *)
(* One action is one call of a public member.  An element operation of T   *)
(* (construction from arguments, value construction, copy, move) may       *)
(* throw; the parameter f of an action names the element operation that    *)
(* throws (0: none).  A failed element operation leaves its operands as    *)
(* they were; a successful move leaves its source in the MovedFrom state.  *)
(*                                                                         *)
(* A block that no RawMemory points to any more can be neither released    *)
(* nor read again.  The heap keeps the blocks that are still owned; a call *)
(* that leaves a block without owner reports it in last.leak, and the      *)
(* objects a call abandons (in such a block, or in a block it releases)    *)
(* in last.lost.                                                           *)
(***************************************************************************)
EXTENDS Integers, Sequences, FiniteSets, TLC

\* ---------------------------------------------------------------- bounds
MaxCap == 4        \* the largest argument of Vector(n), Reserve(n), Resize(n)
MaxBlocks == 3     \* operator new fails when this many blocks are in use
HeapCells == 6     \* cells of the heap of a run with one vector
PairCells == 5     \* cells of the heap of a run with two vectors
SizeBits == 6      \* width of size_t, scaled down

Vecs == {"a", "b"}
Values == {0, 1}
Addrs == 1..MaxBlocks
SizeMod == 2 ^ SizeBits

Null == 0          \* nullptr
Raw == -1          \* a cell holding no live object
ValueInit == 0     \* T()
MovedFrom == 0     \* the state a successful move leaves its source in

\* The element types Vector<T> is instantiated with.
Kinds == { [nothrowMove |-> TRUE,  copyable |-> TRUE],
           [nothrowMove |-> FALSE, copyable |-> TRUE],
           [nothrowMove |-> FALSE, copyable |-> FALSE] }

VARIABLES vec, alive, heap, room, kind, last, ub
vars == <<vec, alive, heap, room, kind, last, ub>>

\* ------------------------------------------------------------- RawMemory
EmptyVec == [buffer |-> Null, capacity |-> 0, size |-> 0]

Block(n) == [i \in 1..n |-> Raw]

FreeAddrs(h) == {a \in Addrs : h[a] = <<>>}

RECURSIVE CellsInUse(_, _)
CellsInUse(h, a) == IF a = 0 THEN 0 ELSE Len(h[a]) + CellsInUse(h, a - 1)

\* operator new succeeds: an address is free and the heap has n cells left
CanAllocate(h, n) ==
    n = 0 \/ (FreeAddrs(h) # {} /\ CellsInUse(h, MaxBlocks) + n <= room)

NewAddr(h) == CHOOSE a \in FreeAddrs(h) : \A b \in FreeAddrs(h) : a <= b

\* RawMemory::Allocate: the address handed out, and the heap afterwards
Allocate(h, n) == IF n # 0 THEN NewAddr(h) ELSE Null

AllocateHeap(h, n) == IF n # 0 THEN [h EXCEPT ![NewAddr(h)] = Block(n)] ELSE h

\* RawMemory::Deallocate
Deallocate(h, a) == IF a = Null THEN h ELSE [h EXCEPT ![a] = <<>>]

LiveCount(blk) == Cardinality({i \in DOMAIN blk : blk[i] # Raw})

\* objects still live in a block at the moment it is released
LostAt(h, a) == IF a = Null THEN 0 ELSE LiveCount(h[a])

\* --------------------------------------------------- element-range steps
\* new (p + k) T(x)
ConstructAt(h, a, k, x) == [h EXCEPT ![a][k + 1] = x]

\* a faulty variant: nothing is destroyed
DestroyNone(h, a, k, n) == h

\* std::destroy_n(p + k, n)
DestroyN(h, a, k, n) ==
    IF n = 0 THEN h
    ELSE [h EXCEPT ![a] = [i \in DOMAIN h[a] |->
             IF i > k /\ i <= k + n THEN Raw ELSE h[a][i]]]

\* a faulty variant: the cells are left as they are
ValueConstructNone(h, a, k, n) == h

\* std::uninitialized_value_construct_n(p + k, n)
ValueConstructN(h, a, k, n) ==
    IF n = 0 THEN h
    ELSE [h EXCEPT ![a] = [i \in DOMAIN h[a] |->
             IF i > k /\ i <= k + n THEN ValueInit ELSE h[a][i]]]

\* a faulty variant: a transfer that throws leaves what it constructed in place
UninitTransferNoUnwind(h, s, so, n, d, do, move, f) ==
    LET done == IF f = 0 THEN n ELSE f - 1
        hd == IF done > 0
              THEN [h EXCEPT ![d] = [i \in DOMAIN h[d] |->
                       IF i > do /\ i <= do + done THEN h[s][i - do + so] ELSE h[d][i]]]
              ELSE h
    IN IF move /\ done > 0
       THEN [hd EXCEPT ![s] = [i \in DOMAIN hd[s] |->
                IF i > so /\ i <= so + done THEN MovedFrom ELSE hd[s][i]]]
       ELSE hd

\* std::uninitialized_copy_n / std::uninitialized_move_n of n elements from
\* cell so of block s to cell do of block d.  f = 0: all n are transferred.
\* f in 1..n: the f-th construction throws, the algorithm destroys what it
\* constructed (d is as before) and the first f-1 sources of a move stay
\* moved-from.
UninitTransferN(h, s, so, n, d, do, move, f) ==
    LET done == IF f = 0 THEN n ELSE f - 1
        hd == IF f = 0 /\ n > 0
              THEN [h EXCEPT ![d] = [i \in DOMAIN h[d] |->
                       IF i > do /\ i <= do + n THEN h[s][i - do + so] ELSE h[d][i]]]
              ELSE h
    IN IF move /\ done > 0
       THEN [hd EXCEPT ![s] = [i \in DOMAIN hd[s] |->
                IF i > so /\ i <= so + done THEN MovedFrom ELSE hd[s][i]]]
       ELSE hd

\* a faulty variant: the transfer always moves
UseMoveAlways(k) == TRUE

\* the transfer kind selected by
\* is_nothrow_move_constructible_v<T> || !is_copy_constructible_v<T>
UseMove(k) == k.nothrowMove \/ ~k.copyable

\* the selected transfer can throw
TransferThrows(k) == ~UseMove(k) \/ ~k.nothrowMove

\* -------------------------------------------------------------- results
\* What a member call leaves behind: the vector, the heap, how it ended
\* and the objects that lost their storage without being destroyed.
Res(v, h, out, lost) == [vec |-> v, heap |-> h, out |-> out, lost |-> lost]

\* Vector::Size, Vector::Capacity
Size(v) == vec[v].size
Capacity(v) == vec[v].capacity

\* the live range as a sequence
Elems(v) == [i \in 1..vec[v].size |-> heap[vec[v].buffer][i]]

\* an iterator: a block and an offset into it
Iter(b, k) == [buffer |-> b, offset |-> k]

\* what is recorded for a call that returns no iterator
NoIter == Iter(Null, 0)

NoLast == [op |-> "none", v |-> "a", out |-> "ok", lost |-> 0, leak |-> 0,
           ret |-> NoIter]

\* no vector constructed yet, an empty heap of c cells, element type k
InitWith(k, c) ==
    /\ vec = [v \in Vecs |-> EmptyVec]
    /\ alive = [v \in Vecs |-> FALSE]
    /\ heap = [a \in Addrs |-> <<>>]
    /\ room = c
    /\ kind = k
    /\ last = NoLast
    /\ ub = FALSE

Init == \E k \in Kinds : InitWith(k, HeapCells)

\* an element type with every operation: copyable, moves do not throw
PairKind == [nothrowMove |-> TRUE, copyable |-> TRUE]

InitPair == InitWith(PairKind, PairCells)

\* the blocks of h that no vector of vc points to
Orphans(h, vc) ==
    {a \in Addrs : h[a] # <<>> /\ \A v \in Vecs : vc[v].buffer # a}

RECURSIVE LiveIn(_, _, _)
LiveIn(h, A, a) ==
    IF a = 0 THEN 0
    ELSE (IF a \in A THEN LiveCount(h[a]) ELSE 0) + LiveIn(h, A, a - 1)

\* the common tail of a call of op on v: the vectors, who is alive, the
\* heap, how the call ended, the objects it abandoned, whether it ran into
\* undefined behaviour, the iterator it returned
FinishAt(op, v, vc, al, h, out, lost, u, ret) ==
    \E gone \in {Orphans(h, vc)} :
       /\ vec' = vc
       /\ alive' = al
       /\ heap' = [a \in Addrs |-> IF a \in gone THEN <<>> ELSE h[a]]
       /\ last' = [op |-> op, v |-> v, out |-> out,
                   lost |-> lost + LiveIn(h, gone, MaxBlocks),
                   leak |-> Cardinality(gone), ret |-> ret]
       /\ ub' = u
       /\ UNCHANGED <<kind, room>>

\* the tail of a call that returns no iterator
Finish(op, v, vc, al, h, out, lost, u) ==
    FinishAt(op, v, vc, al, h, out, lost, u, NoIter)

\* a call on v that constructs or destroys no vector
FinishOn(op, v, r) ==
    \E q \in {r} :
        Finish(op, v, [vec EXCEPT ![v] = q.vec], alive, q.heap, q.out, q.lost, FALSE)

\* ---------------------------------------------------------- constructors
\* Vector()
DefaultConstruct(v) ==
    /\ ~ub /\ ~alive[v]
    /\ Finish("Vector", v, [vec EXCEPT ![v] = EmptyVec],
              [alive EXCEPT ![v] = TRUE], heap, "ok", 0, FALSE)

\* explicit Vector(size_t size)
SizedRes(h, n, f) ==
    IF ~CanAllocate(h, n) THEN Res(EmptyVec, h, "bad_alloc", 0)
    ELSE LET a == Allocate(h, n)
             h1 == AllocateHeap(h, n)
         IN IF f # 0
            THEN Res(EmptyVec, Deallocate(h1, a), "throw", LostAt(h1, a))
            ELSE LET h2 == ValueConstructN(h1, a, 0, n)
                 IN Res([buffer |-> a, capacity |-> n, size |-> n], h2, "ok", 0)

SizedConstruct(v, n, f) ==
    /\ ~ub /\ ~alive[v]
    /\ f <= n
    /\ LET r == SizedRes(heap, n, f)
       IN Finish("VectorN", v, [vec EXCEPT ![v] = r.vec],
                 [alive EXCEPT ![v] = (r.out = "ok")], r.heap, r.out, r.lost, FALSE)

\* ~Vector(): destroy_n over the live range, then ~RawMemory
Destroy(v) ==
    /\ ~ub /\ alive[v]
    /\ LET h1 == DestroyN(heap, vec[v].buffer, 0, vec[v].size)
       IN Finish("~Vector", v, [vec EXCEPT ![v] = EmptyVec],
                 [alive EXCEPT ![v] = FALSE], Deallocate(h1, vec[v].buffer),
                 "ok", LostAt(h1, vec[v].buffer), FALSE)

\* ------------------------------------------------------------- Reserve
\* a faulty variant: the early return tests new_capacity < Capacity()
ReserveResStrict(vc, h, n, f) ==
    IF n < vc.capacity THEN Res(vc, h, "ok", 0)
    ELSE IF ~CanAllocate(h, n) THEN Res(vc, h, "bad_alloc", 0)
    ELSE LET a == Allocate(h, n)
             h1 == AllocateHeap(h, n)
             h2 == UninitTransferN(h1, vc.buffer, 0, vc.size, a, 0, UseMove(kind), f)
         IN IF f # 0
            THEN Res(vc, Deallocate(h2, a), "throw", LostAt(h2, a))
            ELSE LET h3 == DestroyN(h2, vc.buffer, 0, vc.size)
                 IN Res([buffer |-> a, capacity |-> n, size |-> vc.size],
                        Deallocate(h3, vc.buffer), "ok", LostAt(h3, vc.buffer))

\* Vector::Reserve.  f in 1..size: the f-th transfer throws.
ReserveRes(vc, h, n, f) ==
    IF n <= vc.capacity THEN Res(vc, h, "ok", 0)
    ELSE IF ~CanAllocate(h, n) THEN Res(vc, h, "bad_alloc", 0)
    ELSE LET a == Allocate(h, n)
             h1 == AllocateHeap(h, n)
             h2 == UninitTransferN(h1, vc.buffer, 0, vc.size, a, 0, UseMove(kind), f)
         IN IF f # 0
            THEN Res(vc, Deallocate(h2, a), "throw", LostAt(h2, a))
            ELSE LET h3 == DestroyN(h2, vc.buffer, 0, vc.size)
                 IN Res([buffer |-> a, capacity |-> n, size |-> vc.size],
                        Deallocate(h3, vc.buffer), "ok", LostAt(h3, vc.buffer))

\* the element operations of Reserve(n) that can throw
ReserveFaults(vc, h, n) ==
    IF n > vc.capacity /\ CanAllocate(h, n) /\ TransferThrows(kind)
    THEN 0..vc.size ELSE {0}

Reserve(v, n, f) ==
    /\ ~ub /\ alive[v]
    /\ f \in ReserveFaults(vec[v], heap, n)
    /\ FinishOn("Reserve", v, ReserveRes(vec[v], heap, n, f))

\* ------------------------------------------------------------- Emplace
\* the block of vc after j steps of std::move_backward(pos, end() - 1, end())
\* (cell size - 1 was already moved from by the construction of cell size)
ShiftRight(h, a, size, j) ==
    [h EXCEPT ![a] = [i \in DOMAIN h[a] |->
        IF i - 1 >= size - j /\ i - 1 <= size - 1 THEN h[a][i - 1]
        ELSE IF i - 1 = size - j - 1 THEN MovedFrom
        ELSE h[a][i]]]

\* a faulty variant: the range is not moved
ShiftLeftNone(h, a, idx, j) == h

\* the block of vc after j steps of std::move(pos + 1, end(), pos)
ShiftLeft(h, a, idx, j) ==
    [h EXCEPT ![a] = [i \in DOMAIN h[a] |->
        IF i - 1 >= idx /\ i - 1 < idx + j THEN h[a][i + 1]
        ELSE IF j > 0 /\ i - 1 = idx + j THEN MovedFrom
        ELSE h[a][i]]]

\* a faulty variant: grow by one cell
GrownCapacityByOne(size) == size + 1

\* the capacity EmplaceWithDataRelocation asks for
GrownCapacity(size) == IF size = 0 THEN 1 ELSE size * 2

\* EmplaceWithDataRelocation, then ++size_.  f = 1: the new element's
\* constructor throws; f = 1 + k: the k-th transfer of an existing element.
EmplaceWithDataRelocation(vc, h, idx, x, f) ==
    LET n == GrownCapacity(vc.size)
    IN IF ~CanAllocate(h, n) THEN Res(vc, h, "bad_alloc", 0)
       ELSE
       LET a == Allocate(h, n)
           h1 == AllocateHeap(h, n)
           h2 == ConstructAt(h1, a, idx, x)
           k == f - 1
           pre == UninitTransferN(h2, vc.buffer, 0, idx, a, 0, UseMove(kind),
                                  IF k >= 1 /\ k <= idx THEN k ELSE 0)
           suf == UninitTransferN(pre, vc.buffer, idx, vc.size - idx, a, idx + 1,
                                  UseMove(kind), IF k > idx THEN k - idx ELSE 0)
       IN IF f = 1 THEN Res(vc, Deallocate(h1, a), "ctor", LostAt(h1, a))
          ELSE IF k >= 1 /\ k <= idx
          THEN Res(vc, Deallocate(pre, a), "transfer", LostAt(pre, a))
          ELSE IF k > idx
          THEN Res(vc, Deallocate(suf, a), "transfer", LostAt(suf, a))
          ELSE LET h3 == DestroyN(suf, vc.buffer, 0, vc.size)
               IN Res([buffer |-> a, capacity |-> n, size |-> vc.size + 1],
                      Deallocate(h3, vc.buffer), "ok", LostAt(h3, vc.buffer))

\* EmplaceWithoutDataRelocation, then ++size_.  At the end: f = 1, the
\* construction throws.  In the middle: f = 1 the temporary, f = 2 the move
\* construction of the last element into cell size, f = 2 + k the k-th
\* step of move_backward, f = 3 + m the assignment of the temporary.
EmplaceWithoutDataRelocation(vc, h, idx, x, f) ==
    LET a == vc.buffer
        m == vc.size - 1 - idx
        h1 == [h EXCEPT ![a][vc.size + 1] = h[a][vc.size],
                        ![a][vc.size] = MovedFrom]
        grown == [vc EXCEPT !.size = vc.size + 1]
    IN IF idx = vc.size
       THEN IF f = 1 THEN Res(vc, h, "ctor", 0)
            ELSE Res(grown, ConstructAt(h, a, idx, x), "ok", 0)
       ELSE IF f = 1 THEN Res(vc, h, "ctor", 0)
       ELSE IF f = 2 THEN Res(vc, h, "move_last", 0)
       ELSE IF f > 2 /\ f <= 2 + m
       THEN Res(vc, ShiftRight(h1, a, vc.size, f - 3), "shift", 0)
       ELSE IF f = 3 + m
       THEN Res(vc, ShiftRight(h1, a, vc.size, m), "assign", 0)
       ELSE Res(grown, ConstructAt(ShiftRight(h1, a, vc.size, m), a, idx, x), "ok", 0)

\* Vector::Emplace
EmplaceRes(vc, h, idx, x, f) ==
    IF vc.size = vc.capacity
    THEN EmplaceWithDataRelocation(vc, h, idx, x, f)
    ELSE EmplaceWithoutDataRelocation(vc, h, idx, x, f)

\* the element operations of Emplace that can throw
EmplaceFaults(vc, h, idx) ==
    IF vc.size = vc.capacity
    THEN IF ~CanAllocate(h, GrownCapacity(vc.size)) THEN {0}
         ELSE IF TransferThrows(kind) THEN 0..(1 + vc.size) ELSE {0, 1}
    ELSE IF idx = vc.size \/ kind.nothrowMove THEN {0, 1}
         ELSE 0..(2 + vc.size - idx)

\* a faulty variant: the iterator the caller passed is returned
EmplaceReturnPos(r, pos) == IF r.out = "ok" THEN pos ELSE NoIter

\* return begin() + index, begin() being read after the buffers were swapped
EmplaceReturn(r, pos) ==
    IF r.out = "ok" THEN Iter(r.vec.buffer, pos.offset) ELSE NoIter

\* Emplace(pos, args...), Insert(pos, value); assert(begin() <= pos && pos <= end())
Emplace(v, idx, x, f) ==
    /\ ~ub /\ alive[v]
    /\ idx \in 0..vec[v].size
    /\ f \in EmplaceFaults(vec[v], heap, idx)
    /\ \E r \in {EmplaceRes(vec[v], heap, idx, x, f)} :
          FinishAt("Emplace", v, [vec EXCEPT ![v] = r.vec], alive, r.heap,
                   r.out, r.lost, FALSE,
                   EmplaceReturn(r, Iter(vec[v].buffer, idx)))

\* a faulty variant: the reference is read once the elements from pos on
\* have been shifted
ArgValueLate(h, vc, idx, j) ==
    IF vc.size < vc.capacity /\ idx < vc.size /\ j >= idx
    THEN (IF j = idx THEN MovedFrom ELSE h[vc.buffer][j])
    ELSE h[vc.buffer][j + 1]

\* The value T's constructor reads through an argument that refers to
\* element j of the vector itself.  h is the heap at the entry of the call:
\* on each path the construction from the arguments (new (new_data + index)
\* T(args), T temp_obj(args), new (data_ + index) T(args)) is the first
\* element operation.
ArgValue(h, vc, idx, j) == h[vc.buffer][j + 1]

\* Emplace with a reference to element j as argument; mv: the reference is
\* an rvalue and the construction moves from the element.  The construction
\* is the element operation f = 1; when it or the allocation before it
\* fails, the element is as it was.
EmplaceRefRes(vc, h, idx, j, mv, f) ==
    LET x == ArgValue(h, vc, idx, j)
        h0 == IF mv THEN [h EXCEPT ![vc.buffer][j + 1] = MovedFrom] ELSE h
        r == EmplaceRes(vc, h0, idx, x, f)
    IN IF r.out \in {"bad_alloc", "ctor"} THEN Res(vc, h, r.out, 0) ELSE r

\* v.Insert(pos, v[j]), v.PushBack(v[j]), v.Emplace(pos, std::move(v[j]))
EmplaceRef(v, idx, j, mv, f) ==
    /\ ~ub /\ alive[v]
    /\ idx \in 0..vec[v].size
    /\ j \in 0..(vec[v].size - 1)
    /\ mv \/ kind.copyable
    /\ f \in EmplaceFaults(vec[v], heap, idx)
    /\ \E r \in {EmplaceRefRes(vec[v], heap, idx, j, mv, f)} :
          FinishAt("EmplaceRef", v, [vec EXCEPT ![v] = r.vec], alive, r.heap,
                   r.out, r.lost, FALSE,
                   EmplaceReturn(r, Iter(vec[v].buffer, idx)))

\* PushBack(value), EmplaceBack(args...): Emplace(cend(), ...)
PushBack(v, x, f) ==
    /\ ~ub /\ alive[v]
    /\ f \in EmplaceFaults(vec[v], heap, vec[v].size)
    /\ FinishOn("PushBack", v, EmplaceRes(vec[v], heap, vec[v].size, x, f))

\* a faulty variant: the capacity follows the size down
PopBackResShrink(vc, h) ==
    IF vc.size > 0
    THEN Res([vc EXCEPT !.size = vc.size - 1, !.capacity = vc.size - 1],
             DestroyN(h, vc.buffer, vc.size - 1, 1), "ok", 0)
    ELSE Res(vc, h, "ok", 0)

\* Vector::PopBack
PopBackRes(vc, h) ==
    IF vc.size > 0
    THEN Res([vc EXCEPT !.size = vc.size - 1],
             DestroyN(h, vc.buffer, vc.size - 1, 1), "ok", 0)
    ELSE Res(vc, h, "ok", 0)

PopBack(v) ==
    /\ ~ub /\ alive[v]
    /\ FinishOn("PopBack", v, PopBackRes(vec[v], heap))

\* --------------------------------------------------------------- Resize
\* a faulty variant: a shrinking Resize gives up the capacity it no longer needs
ResizeResFit(vc, h, n, f) ==
    IF n > vc.size
    THEN LET r == ReserveRes(vc, h, n, IF f <= vc.size THEN f ELSE 0)
         IN IF r.out # "ok" THEN r
            ELSE IF f = vc.size + 1 THEN Res(r.vec, r.heap, "throw", r.lost)
            ELSE Res([r.vec EXCEPT !.size = n],
                     ValueConstructN(r.heap, r.vec.buffer, vc.size, n - vc.size),
                     "ok", r.lost)
    ELSE Res([vc EXCEPT !.size = n, !.capacity = n],
             DestroyN(h, vc.buffer, n, vc.size - n), "ok", 0)

\* f in 1..size: Reserve's f-th transfer throws; f = size + 1: a value
\* construction throws (the algorithm destroys what it constructed).
ResizeRes(vc, h, n, f) ==
    IF n > vc.size
    THEN LET r == ReserveRes(vc, h, n, IF f <= vc.size THEN f ELSE 0)
         IN IF r.out # "ok" THEN r
            ELSE IF f = vc.size + 1 THEN Res(r.vec, r.heap, "throw", r.lost)
            ELSE Res([r.vec EXCEPT !.size = n],
                     ValueConstructN(r.heap, r.vec.buffer, vc.size, n - vc.size),
                     "ok", r.lost)
    ELSE Res([vc EXCEPT !.size = n],
             DestroyN(h, vc.buffer, n, vc.size - n), "ok", 0)

ResizeFaults(vc, h, n) ==
    IF n > vc.size
    THEN IF n > vc.capacity /\ ~CanAllocate(h, n) THEN {0}
         ELSE (ReserveFaults(vc, h, n) \cup {vc.size + 1})
    ELSE {0}

Resize(v, n, f) ==
    /\ ~ub /\ alive[v]
    /\ f \in ResizeFaults(vec[v], heap, n)
    /\ FinishOn("Resize", v, ResizeRes(vec[v], heap, n, f))

\* ---------------------------------------------------------------- Erase
\* assert(begin() <= pos && pos <= end()) admits pos == end().  There
\* std::move is given the range [end() + 1, end()) and destroy_at the cell
\* end() - 1: the behaviour is undefined.  With elements present the build
\* either skips the loop and destroys the last element, or runs off the
\* block (u); on an empty vector no object is at end() - 1 and --size_ wraps.
EraseRes(vc, h, idx, f) ==
    LET a == vc.buffer
        m == vc.size - 1 - idx
    IN IF idx = vc.size
       THEN IF vc.size = 0
            THEN Res([vc EXCEPT !.size = (vc.size - 1) % SizeMod], h, "ub", 0)
            ELSE Res([vc EXCEPT !.size = vc.size - 1],
                     DestroyN(h, a, vc.size - 1, 1), "ok", 0)
       ELSE IF f # 0 THEN Res(vc, ShiftLeft(h, a, idx, f - 1), "throw", 0)
       ELSE Res([vc EXCEPT !.size = vc.size - 1],
                DestroyN(ShiftLeft(h, a, idx, m), a, vc.size - 1, 1), "ok", 0)

\* return begin() + index
EraseReturn(r, pos) ==
    IF r.out = "ok" THEN Iter(r.vec.buffer, pos.offset) ELSE NoIter

EraseFaults(vc, idx) ==
    IF idx < vc.size /\ ~kind.nothrowMove THEN 0..(vc.size - 1 - idx) ELSE {0}

Erase(v, idx, f, u) ==
    /\ ~ub /\ alive[v]
    /\ idx \in 0..vec[v].size
    /\ f \in EraseFaults(vec[v], idx)
    /\ u => (idx = vec[v].size /\ vec[v].size > 0)
    /\ \E r \in {IF u THEN Res(vec[v], heap, "ub", 0)
                     ELSE EraseRes(vec[v], heap, idx, f)} :
          FinishAt("Erase", v, [vec EXCEPT ![v] = r.vec], alive, r.heap, r.out,
                   r.lost, r.out = "ub",
                   EraseReturn(r, Iter(vec[v].buffer, idx)))

\* ------------------------------------------------------ copy, move, swap
\* a faulty variant: the source keeps its pointer and capacity
RawMoveAssignKeep(dst, src, same) ==
    IF same THEN <<dst, dst>>
    ELSE << [dst EXCEPT !.buffer = src.buffer, !.capacity = src.capacity], src >>

\* RawMemory::operator=(RawMemory&&): the pair (this, rhs) afterwards.
\* std::exchange writes rhs first, then the result is stored in this.
RawMoveAssign(dst, src, same) ==
    IF same THEN <<dst, dst>>
    ELSE << [dst EXCEPT !.buffer = src.buffer, !.capacity = src.capacity],
            [src EXCEPT !.buffer = Null, !.capacity = 0] >>

\* a faulty variant: the copy takes the source's block instead of a block of its own
CopyConstructResShallow(src, h, f) ==
    Res([buffer |-> src.buffer, capacity |-> src.size, size |-> src.size], h, "ok", 0)

\* Vector(const Vector& other)
CopyConstructRes(src, h, f) ==
    LET n == src.size
    IN IF ~CanAllocate(h, n) THEN Res(EmptyVec, h, "bad_alloc", 0)
       ELSE LET a == Allocate(h, n)
                h1 == AllocateHeap(h, n)
                h2 == UninitTransferN(h1, src.buffer, 0, n, a, 0, FALSE, f)
            IN IF f # 0 THEN Res(EmptyVec, Deallocate(h2, a), "throw", LostAt(h2, a))
               ELSE Res([buffer |-> a, capacity |-> n, size |-> n], h2, "ok", 0)

CopyConstruct(v, w, f) ==
    /\ ~ub /\ ~alive[v] /\ alive[w] /\ kind.copyable
    /\ f \in (IF CanAllocate(heap, vec[w].size) THEN 0..vec[w].size ELSE {0})
    /\ LET r == CopyConstructRes(vec[w], heap, f)
       IN Finish("VectorCopy", v, [vec EXCEPT ![v] = r.vec],
                 [alive EXCEPT ![v] = (r.out = "ok")], r.heap, r.out, r.lost, FALSE)

\* Vector(Vector&& other): data_ is default-initialised, then move-assigned
MoveConstruct(v, w) ==
    /\ ~ub /\ ~alive[v] /\ alive[w]
    /\ LET p == RawMoveAssign(EmptyVec, vec[w], FALSE)
       IN Finish("VectorMove", v,
                 [vec EXCEPT ![v] = [p[1] EXCEPT !.size = vec[w].size],
                             ![w] = [p[2] EXCEPT !.size = 0]],
                 [alive EXCEPT ![v] = TRUE], heap, "ok", 0, FALSE)

\* std::copy_n(rhs.begin(), n, begin())
CopyAssignN(h, s, d, n) ==
    [h EXCEPT ![d] = [i \in DOMAIN h[d] |-> IF i <= n THEN h[s][i] ELSE h[d][i]]]

\* a faulty variant: the copy-and-swap branch destroys its own elements before it
\* copies the source
CopyAssignResClearFirst(vc, rhs, h, f) ==
    IF rhs.size > vc.capacity
    THEN LET h0 == DestroyN(h, vc.buffer, 0, vc.size)
             c == CopyConstructRes(rhs, h0, f)
         IN IF c.out # "ok" THEN Res([vc EXCEPT !.size = 0], c.heap, c.out, c.lost)
            ELSE Res(c.vec, Deallocate(c.heap, vc.buffer), "ok", 0)
    ELSE LET min_size == IF rhs.size < vc.size THEN rhs.size ELSE vc.size
         IN IF f # 0 /\ f <= min_size
            THEN Res(vc, CopyAssignN(h, rhs.buffer, vc.buffer, f - 1), "throw", 0)
            ELSE LET h1 == IF min_size = 0 THEN h
                           ELSE CopyAssignN(h, rhs.buffer, vc.buffer, min_size)
                 IN IF rhs.size = min_size
                    THEN Res([vc EXCEPT !.size = rhs.size],
                             DestroyN(h1, vc.buffer, rhs.size, vc.size - rhs.size),
                             "ok", 0)
                    ELSE IF f # 0 THEN Res(vc, h1, "throw", 0)
                    ELSE Res([vc EXCEPT !.size = rhs.size],
                             UninitTransferN(h1, rhs.buffer, vc.size,
                                 rhs.size - vc.size, vc.buffer, vc.size, FALSE, 0),
                             "ok", 0)

\* Vector::operator=(const Vector& rhs), this != &rhs.  f in 1..rhs.size:
\* the f-th element copy throws.
CopyAssignRes(vc, rhs, h, f) ==
    IF rhs.size > vc.capacity
    THEN LET c == CopyConstructRes(rhs, h, f)
         IN IF c.out # "ok" THEN Res(vc, c.heap, c.out, c.lost)
            ELSE LET h1 == DestroyN(c.heap, vc.buffer, 0, vc.size)
                 IN Res(c.vec, Deallocate(h1, vc.buffer), "ok", LostAt(h1, vc.buffer))
    ELSE LET min_size == IF rhs.size < vc.size THEN rhs.size ELSE vc.size
         IN IF f # 0 /\ f <= min_size
            THEN Res(vc, CopyAssignN(h, rhs.buffer, vc.buffer, f - 1), "throw", 0)
            ELSE LET h1 == IF min_size = 0 THEN h
                           ELSE CopyAssignN(h, rhs.buffer, vc.buffer, min_size)
                 IN IF rhs.size = min_size
                    THEN Res([vc EXCEPT !.size = rhs.size],
                             DestroyN(h1, vc.buffer, rhs.size, vc.size - rhs.size),
                             "ok", 0)
                    ELSE IF f # 0 THEN Res(vc, h1, "throw", 0)
                    ELSE Res([vc EXCEPT !.size = rhs.size],
                             UninitTransferN(h1, rhs.buffer, vc.size,
                                 rhs.size - vc.size, vc.buffer, vc.size, FALSE, 0),
                             "ok", 0)

CopyAssignFaults(vc, rhs, h) ==
    IF rhs.size > vc.capacity /\ ~CanAllocate(h, rhs.size) THEN {0} ELSE 0..rhs.size

CopyAssign(v, w, f) ==
    /\ ~ub /\ alive[v] /\ alive[w] /\ kind.copyable
    /\ IF v = w
       THEN /\ f = 0
            /\ FinishOn("CopyAssign", v, Res(vec[v], heap, "ok", 0))
       ELSE /\ f \in CopyAssignFaults(vec[v], vec[w], heap)
            /\ FinishOn("CopyAssign", v, CopyAssignRes(vec[v], vec[w], heap, f))

\* Vector::operator=(Vector&& rhs)
MoveAssign(v, w) ==
    /\ ~ub /\ alive[v] /\ alive[w]
    /\ LET p == RawMoveAssign(vec[v], vec[w], v = w)
       IN Finish("MoveAssign", v,
                 IF v = w THEN vec
                 ELSE [vec EXCEPT ![v] = [p[1] EXCEPT !.size = vec[w].size],
                                  ![w] = [p[2] EXCEPT !.size = 0]],
                 alive, heap, "ok", 0, FALSE)

\* Vector::Swap: RawMemory::Swap, then std::swap(size_, other.size_)
Swap(v, w) ==
    /\ ~ub /\ alive[v] /\ alive[w]
    /\ Finish("Swap", v, [vec EXCEPT ![v] = vec[w], ![w] = vec[v]],
              alive, heap, "ok", 0, FALSE)

\* ------------------------------------------------------------ behaviours
\* the element operation that throws, counted within one call (0: none)
Faults == 0..(HeapCells + 2)

\* One vector; every element operation may throw.
Next ==
    \/ DefaultConstruct("a")
    \/ \E n \in 0..MaxCap, f \in Faults : SizedConstruct("a", n, f)
    \/ Destroy("a")
    \/ CopyAssign("a", "a", 0)
    \/ MoveAssign("a", "a")
    \/ Swap("a", "a")
    \/ \E n \in 0..MaxCap, f \in Faults : Reserve("a", n, f)
    \/ \E n \in 0..MaxCap, f \in Faults : Resize("a", n, f)
    \/ \E i \in 0..HeapCells, x \in Values, f \in Faults : Emplace("a", i, x, f)
    \/ \E i \in 0..HeapCells, j \in 0..HeapCells, mv \in BOOLEAN, f \in Faults :
          EmplaceRef("a", i, j, mv, f)
    \/ \E x \in Values, f \in Faults : PushBack("a", x, f)
    \/ PopBack("a")
    \/ \E i \in 0..HeapCells, f \in Faults, u \in BOOLEAN : Erase("a", i, f, u)

Spec == Init /\ [][Next]_vars

\* Two vectors.  The element copies of the copy constructor and of copy
\* assignment may throw; the other calls run with element operations that
\* do not throw.
NextPair ==
    \/ \E v \in Vecs : DefaultConstruct(v)
    \/ \E v \in Vecs, n \in 0..MaxCap : SizedConstruct(v, n, 0)
    \/ \E v, w \in Vecs, f \in Faults : CopyConstruct(v, w, f)
    \/ \E v, w \in Vecs : MoveConstruct(v, w)
    \/ \E v \in Vecs : Destroy(v)
    \/ \E v, w \in Vecs, f \in Faults : CopyAssign(v, w, f)
    \/ \E v, w \in Vecs : MoveAssign(v, w)
    \/ \E v, w \in Vecs : Swap(v, w)
    \/ \E v \in Vecs, n \in 0..MaxCap : Reserve(v, n, 0)
    \/ \E v \in Vecs, n \in 0..MaxCap : Resize(v, n, 0)
    \/ \E v \in Vecs, i \in 0..HeapCells, x \in Values : Emplace(v, i, x, 0)
    \/ \E v \in Vecs, x \in Values : PushBack(v, x, 0)
    \/ \E v \in Vecs : PopBack(v)
    \/ \E v \in Vecs, i \in 0..HeapCells, u \in BOOLEAN : Erase(v, i, 0, u)

SpecPair == InitPair /\ [][NextPair]_vars


\* --------------------------------------------------------------- claims
\* the cells of v's block, live or not
Cells(v) == IF vec[v].buffer = Null THEN <<>> ELSE heap[vec[v].buffer]

\* 0 <= size_ <= capacity_, [0, size_) live, [size_, capacity_) raw
WellFormed(v) ==
    /\ 0 <= vec[v].size /\ vec[v].size <= vec[v].capacity
    /\ Len(Cells(v)) = vec[v].capacity
    /\ \A i \in 1..vec[v].capacity : (Cells(v)[i] # Raw) <=> (i <= vec[v].size)

RECURSIVE LiveObjects(_, _)
LiveObjects(h, a) == IF a = 0 THEN 0 ELSE LiveCount(h[a]) + LiveObjects(h, a - 1)

SumSizes == (IF alive["a"] THEN vec["a"].size ELSE 0)
          + (IF alive["b"] THEN vec["b"].size ELSE 0)

\* C1: after any sequence of public calls, each within its asserted
\* precondition, every vector has 0 <= Size() <= Capacity(), live objects
\* in the slots [0, Size()) and none in [Size(), Capacity()).
C1_LiveRange == \A v \in Vecs : alive[v] => WellFormed(v)

\* C2: after every call that does not fail, the objects constructed and not
\* yet destroyed are exactly the elements of the vectors alive (none once
\* every vector is destroyed), and the call abandoned no object.
C2_Balance ==
    last.out = "ok" =>
        /\ last.lost = 0
        /\ LiveObjects(heap, MaxBlocks) = SumSizes

\* a step in which Emplace, called on a full vector, ends with an exception
\* of an element constructor
EmplaceFullThrows(v) ==
    /\ last'.op = "Emplace" /\ last'.v = v
    /\ last'.out \in {"ctor", "transfer"}
    /\ vec[v].size = vec[v].capacity

\* C3 as stated: when an element constructor throws during Emplace on a
\* full vector, Size(), Capacity(), the storage address and every element
\* value are as before the call.
C3_Strong ==
    [][\A v \in Vecs : EmplaceFullThrows(v) =>
          /\ vec'[v] = vec[v]
          /\ Elems(v)' = Elems(v)]_vars

\* C3 amended: Size(), Capacity() and the storage address are as before and
\* every slot of [0, Size()) is live; the element values are as before when
\* the new element's constructor threw or the element type is copyable.
C3_StrongWhenCopied ==
    [][\A v \in Vecs : EmplaceFullThrows(v) =>
          /\ vec' = vec
          /\ \A i \in 1..vec[v].size : Elems(v)'[i] # Raw
          /\ (kind.copyable \/ last'.out = "ctor") => Elems(v)' = Elems(v)]_vars

\* a copy of the second of two elements has thrown in Emplace on a full vector
C3_Witness ==
    /\ last.op = "Emplace" /\ last.out = "transfer" /\ kind.copyable
    /\ alive[last.v] /\ vec[last.v].size = vec[last.v].capacity
    /\ vec[last.v].size >= 2 /\ \E i \in 1..vec[last.v].size : Elems(last.v)[i] # 0

\* C4: when a throwing transfer aborts Emplace with relocation, every object
\* constructed in the new block is destroyed before the block is released.
C4_Unwound == last.out = "transfer" => last.lost = 0 /\ last.leak = 0

\* a step in which a transfer of Reserve throws
ReserveThrows(v) == last'.op = "Reserve" /\ last'.v = v /\ last'.out = "throw"

\* C5 as stated: when a transfer step throws in Reserve, whichever transfer
\* kind is selected, the new block is emptied and released and the vector
\* keeps its storage, Size(), Capacity() and every element value.
C5_Strong ==
    [][\A v \in Vecs : ReserveThrows(v) =>
          /\ last'.lost = 0 /\ last'.leak = 0
          /\ vec'[v] = vec[v]
          /\ Elems(v)' = Elems(v)]_vars

\* C5 amended: the new block is emptied and released, the vector keeps its
\* storage, Size() and Capacity() and every slot of [0, Size()) is live; the
\* element values are as before when the element type is copyable.
C5_StrongWhenCopied ==
    [][\A v \in Vecs : ReserveThrows(v) =>
          /\ last'.lost = 0 /\ last'.leak = 0
          /\ FreeAddrs(heap') = FreeAddrs(heap)
          /\ vec' = vec
          /\ \A i \in 1..vec[v].size : Elems(v)'[i] # Raw
          /\ kind.copyable => Elems(v)' = Elems(v)]_vars

\* a copy has thrown in Reserve on a vector of at least two elements
C5_Witness ==
    /\ last.op = "Reserve" /\ last.out = "throw" /\ kind.copyable
    /\ alive[last.v] /\ vec[last.v].size >= 2
    /\ \E i \in 1..vec[last.v].size : Elems(last.v)[i] # 0

\* a step in which an element copy throws in copy assignment
CopyAssignThrows(v) ==
    last'.op = "CopyAssign" /\ last'.v = v /\ last'.out = "throw"

\* the vector assigned from: the other one (self-assignment copies nothing)
Rhs(v) == CHOOSE w \in Vecs : w # v

\* C6 as stated: when an element copy throws during a = b, in either
\* branch, a's Size(), Capacity() and elements are as before the call.
C6_Strong ==
    [][\A a \in Vecs : CopyAssignThrows(a) =>
          /\ vec'[a] = vec[a]
          /\ Elems(a)' = Elems(a)]_vars

\* C6 amended: a's Size(), Capacity() and storage and all of b are as
\* before and every slot of [0, a.Size()) is live; a's element values are as
\* before in the copy-and-swap branch (b.Size() > a.Capacity()), while in
\* the storage-reuse branch each holds its old value or b's.
C6_StrongWhenSwapped ==
    [][\A a \in Vecs, b \in Vecs : (b # a /\ CopyAssignThrows(a)) =>
             /\ vec' = vec
             /\ Elems(b)' = Elems(b)
             /\ \A i \in 1..vec[a].size :
                   /\ Elems(a)'[i] # Raw
                   /\ \/ Elems(a)'[i] = Elems(a)[i]
                      \/ i <= vec[b].size /\ Elems(a)'[i] = Elems(b)[i]
             /\ vec[b].size > vec[a].capacity => Elems(a)' = Elems(a)]_vars

\* an element copy has thrown in the copy-and-swap branch of an assignment
\* to a vector that holds elements
C6_Witness ==
    /\ last.op = "CopyAssign" /\ last.out = "throw"
    /\ vec[last.v].size > 0
    /\ vec[Rhs(last.v)].size > vec[last.v].capacity

\* C7: every block allocated is released by the time all vectors are
\* destroyed: no call leaves a block without an owner, a move transfer
\* releases the destination's block.
C7_Released ==
    /\ last.leak = 0
    /\ (\A v \in Vecs : ~alive[v]) => \A a \in Addrs : heap[a] = <<>>

\* C8: a PushBack that succeeds adds one to Size(); Capacity() changes only
\* when Size() = Capacity() held, from 0 to 1 and otherwise to its double.
C8_Doubling ==
    [][(last'.op = "PushBack" /\ last'.out = "ok") =>
          LET old == vec[last'.v]
              new == vec'[last'.v]
          IN /\ new.size = old.size + 1
             /\ new.capacity =
                   IF old.size # old.capacity THEN old.capacity
                   ELSE IF old.capacity = 0 THEN 1 ELSE 2 * old.capacity]_vars

\* the third PushBack in a row of doublings: capacity 4 over 3 elements
C8_Witness ==
    /\ last.op = "PushBack" /\ last.out = "ok"
    /\ vec[last.v].size = 3 /\ vec[last.v].capacity = 4

\* C9: Reserve(n) with n <= Capacity() allocates nothing and leaves the
\* storage address, Capacity(), Size() and every cell as they were.
C9_NoOp ==
    [][\A v \in Vecs, n \in 0..MaxCap :
          (n <= vec[v].capacity /\ Reserve(v, n, 0)) =>
              (vec' = vec /\ heap' = heap /\ last'.out = "ok")]_vars

\* Reserve has returned on a vector of 3 elements whose capacity is 3: the
\* capacity did not grow, the argument was at most 3
C9_Witness ==
    /\ last.op = "Reserve" /\ last.out = "ok"
    /\ vec[last.v].size = 3 /\ vec[last.v].capacity = 3

\* the calls that take one vector
SingleOps == {"Reserve", "Resize", "Emplace", "PushBack", "PopBack", "Erase"}

\* C10: a copy (by construction or by assignment, in either branch) has the
\* elements and Size() of its source and a block of its own, the source is
\* untouched, and no later call on one vector changes the other.
C10_CopyIndependent ==
    [][/\ (last'.op = "VectorCopy" /\ last'.out = "ok") =>
            \A v, w \in Vecs : CopyConstruct(v, w, 0) =>
                /\ Elems(v)' = Elems(w)
                /\ vec'[w] = vec[w] /\ Cells(w)' = Cells(w)
       /\ (last'.op = "CopyAssign" /\ last'.out = "ok") =>
            \A v, w \in Vecs : CopyAssign(v, w, 0) =>
                /\ Elems(v)' = Elems(w)
                /\ vec'[w] = vec[w] /\ Cells(w)' = Cells(w)
       /\ \A v, w \in Vecs :
            (v # w /\ vec'[v].buffer # Null) => vec'[v].buffer # vec'[w].buffer
       /\ last'.op \in SingleOps =>
            \A w \in Vecs : w # last'.v =>
                vec'[w] = vec[w] /\ Cells(w)' = Cells(w)]_vars

\* a copy assignment has reused the storage of a vector (capacity 3 for 2
\* elements) and both vectors hold the same two elements in different blocks
C10_Witness ==
    /\ last.op = "CopyAssign" /\ last.out = "ok"
    /\ vec[last.v].size = 2 /\ vec[last.v].capacity = 3
    /\ alive[Rhs(last.v)]
    /\ Elems(last.v) = Elems(Rhs(last.v))
    /\ vec[last.v].buffer # vec[Rhs(last.v)].buffer

\* the sequence s without its element of index i (0-based)
Removed(s, i) == [j \in 1..(Len(s) - 1) |-> IF j <= i THEN s[j] ELSE s[j + 1]]

\* C11: Erase at index i < Size() leaves the sequence without its i-th
\* element, the others in order, Size() one less, Capacity() and the storage
\* address as before, and returns the position of index i.
C11_EraseAt ==
    [][last'.op = "Erase" => \A v \in Vecs, i \in 0..HeapCells :
          (i < vec[v].size /\ Erase(v, i, 0, FALSE)) =>
              /\ last'.out = "ok"
              /\ Elems(v)' = Removed(Elems(v), i)
              /\ vec'[v] = [vec[v] EXCEPT !.size = vec[v].size - 1]
              /\ last'.ret = Iter(vec[v].buffer, i)]_vars

\* Erase at index 1 of four elements has left <<1, 0, 1>> in a block of four
C11_Witness ==
    /\ last.op = "Erase" /\ last.out = "ok" /\ last.ret.offset = 1
    /\ vec[last.v].capacity = 4
    /\ Elems(last.v) = <<1, 0, 1>>

\* the sequence s with x put in front of its element of index i (0-based)
Inserted(s, i, x) ==
    [j \in 1..(Len(s) + 1) |->
        IF j <= i THEN s[j] ELSE IF j = i + 1 THEN x ELSE s[j - 1]]

\* C12: Emplace/Insert of x at index i <= Size() that succeeds leaves
\* s[0..i), x, s[i..n), Size() one more, and returns the position of index i
\* in the storage the vector now has; a full vector gets the grown capacity
\* (2 becomes 4), a vector with room keeps its storage.
C12_EmplaceAt ==
    [][last'.op = "Emplace" => \A v \in Vecs, i \in 0..HeapCells, x \in Values :
          (i <= vec[v].size /\ Emplace(v, i, x, 0) /\ last'.out = "ok") =>
              /\ Elems(v)' = Inserted(Elems(v), i, x)
              /\ vec'[v].size = vec[v].size + 1
              /\ last'.ret = Iter(vec'[v].buffer, i)
              /\ vec[v].size = vec[v].capacity =>
                    vec'[v].capacity =
                        (IF vec[v].size = 0 THEN 1 ELSE 2 * vec[v].size)
              /\ vec[v].size < vec[v].capacity =>
                    /\ vec'[v].capacity = vec[v].capacity
                    /\ vec'[v].buffer = vec[v].buffer]_vars

\* Emplace of 1 at index 1 has made <<0, 1, 0>> in a block of four
C12_Witness ==
    /\ last.op = "Emplace" /\ last.out = "ok" /\ last.ret.offset = 1
    /\ vec[last.v].capacity = 4
    /\ Elems(last.v) = <<0, 1, 0>>

\* what C13 says of a move from src into dst
MovedInto(dst, src) ==
    /\ vec'[dst] = vec[src]
    /\ Cells(dst)' = Cells(src)
    /\ vec'[src] = EmptyVec
    /\ \A a \in Addrs : heap'[a] # <<>> => heap'[a] = heap[a]

\* C13: move construction and move assignment from a distinct vector
\* allocate nothing and touch no element; dst has src's former storage
\* address, Size(), Capacity() and elements, src has Size() = 0 and
\* Capacity() = 0.
C13_Stolen ==
    [][/\ last'.op = "VectorMove" =>
            \A v, w \in Vecs : (v # w /\ MoveConstruct(v, w)) => MovedInto(v, w)
       /\ last'.op = "MoveAssign" =>
            \A v, w \in Vecs : (v # w /\ MoveAssign(v, w)) => MovedInto(v, w)]_vars

\* a vector that owned a block was move-assigned two elements from another
C13_Witness ==
    /\ last.op = "MoveAssign" /\ last.leak = 1
    /\ alive[Rhs(last.v)] /\ vec[Rhs(last.v)] = EmptyVec
    /\ Elems(last.v) = <<0, 1>>

\* a step across which the capacity of v, alive before and after, goes down
Shrinks(v) == alive[v] /\ alive'[v] /\ vec'[v].capacity < vec[v].capacity

\* C14 as stated: no call lowers a vector's Capacity(), copy assignment to
\* it (the only call with a copy-and-swap) excepted.
C14_NeverShrinks ==
    [][\A v \in Vecs :
          Shrinks(v) => (last'.op = "CopyAssign" /\ last'.v = v)]_vars

\* C14 amended: Capacity() goes down only in a move or a Swap with another
\* vector w: Swap exchanges the two vectors, a move gives the destination
\* what w had and leaves the source with capacity 0.  No other call lowers
\* it, copy assignment included.
C14_ShrinksOnlyByExchange ==
    [][\A v \in Vecs : Shrinks(v) =>
          \E w \in Vecs \ {v} :
             \/ /\ last'.op = "Swap"
                /\ vec'[v] = vec[w] /\ vec'[w] = vec[v]
             \/ /\ last'.op \in {"MoveAssign", "VectorMove"} /\ last'.v = v
                /\ vec'[v] = vec[w] /\ vec'[w] = EmptyVec
             \/ /\ last'.op \in {"MoveAssign", "VectorMove"} /\ last'.v = w
                /\ vec'[v] = EmptyVec /\ vec'[w] = vec[v]]_vars

\* a vector that held two elements was move-assigned a block of capacity 1
C14_Witness ==
    /\ last.op = "MoveAssign" /\ last.leak = 1 /\ last.lost = 2
    /\ vec[last.v].capacity = 1

\* C15: Reserve(n) with n > Capacity() that succeeds leaves Capacity() = n,
\* Size() and the sequence as they were, in a new block; the old block is
\* released and each of its elements was destroyed (the call abandons only
\* what was live outside [0, Size()) already, nothing in a well-formed
\* vector) and no block is left without owner.
C15_ReserveExact ==
    [][last'.op = "Reserve" => \A v \in Vecs, n \in 0..MaxCap :
          (n > vec[v].capacity /\ Reserve(v, n, 0) /\ last'.out = "ok") =>
              /\ vec'[v].capacity = n
              /\ vec'[v].size = vec[v].size
              /\ Elems(v)' = Elems(v)
              /\ vec'[v].buffer # vec[v].buffer
              /\ Len(Cells(v)') = n
              /\ vec[v].buffer # Null => heap'[vec[v].buffer] = <<>>
              /\ last'.lost = LiveCount(Cells(v)) - vec[v].size
              /\ last'.leak = 0
              /\ WellFormed(v) => (WellFormed(v)' /\ last'.lost = 0)]_vars

\* Reserve has moved <<1, 0>> out of the first block into a block of three
C15_Witness ==
    /\ last.op = "Reserve" /\ last.out = "ok"
    /\ vec[last.v] = [buffer |-> 2, capacity |-> 3, size |-> 2]
    /\ heap[1] = <<>>
    /\ Elems(last.v) = <<1, 0>>

\* C16: Resize(m) that succeeds on a vector of n elements and capacity c.
\* m > n: Size() = m, Capacity() = max(c, m), the first n elements as
\* before, the slots [n, m) value-constructed.  m <= n: Size() = m, the
\* storage and Capacity() as before, the cells [m, n) destroyed and no
\* other cell touched.
C16_Resized ==
    [][last'.op = "Resize" => \A v \in Vecs, m \in 0..MaxCap :
          (Resize(v, m, 0) /\ last'.out = "ok") =>
              LET n == vec[v].size
                  c == vec[v].capacity
              IN IF m > n
                 THEN /\ vec'[v].size = m
                      /\ vec'[v].capacity = (IF c > m THEN c ELSE m)
                      /\ \A i \in 1..n : Elems(v)'[i] = Elems(v)[i]
                      /\ \A i \in (n + 1)..m : Elems(v)'[i] = ValueInit
                 ELSE /\ vec'[v] = [vec[v] EXCEPT !.size = m]
                      /\ Cells(v)' = [i \in DOMAIN Cells(v) |->
                            IF i > m /\ i <= n THEN Raw ELSE Cells(v)[i]]]_vars

\* Resize(3) has moved <<1>> into a block of three and added two elements
C16_Witness ==
    /\ last.op = "Resize" /\ last.out = "ok"
    /\ vec[last.v] = [buffer |-> 2, capacity |-> 3, size |-> 3]
    /\ heap[1] = <<>>
    /\ Elems(last.v) = <<1, 0, 0>>

\* a step in which Emplace or PushBack, called on v with room to spare,
\* ends with an exception of an element operation
EmplaceInPlaceThrows(v) ==
    /\ last'.op \in {"Emplace", "PushBack"} /\ last'.v = v
    /\ last'.out \in {"ctor", "move_last", "shift", "assign"}
    /\ vec[v].size < vec[v].capacity

\* C17: when a step of Emplace without relocation throws, Size(),
\* Capacity() and the storage are as before, [0, Size()) is live and
\* [Size(), Capacity()) holds no live object; when the construction of the
\* temporary or of the element at the end threw, nothing has changed.
C17_InPlaceValid ==
    [][\A v \in Vecs : (EmplaceInPlaceThrows(v) /\ WellFormed(v)) =>
          /\ vec' = vec
          /\ WellFormed(v)'
          /\ last'.out = "ctor" => heap' = heap]_vars

\* C18: PopBack on a vector with elements destroys the last one and takes
\* one off Size(); Capacity(), the storage address and every other cell are
\* as before.  PopBack on an empty vector changes nothing.
C18_PopBack ==
    [][last'.op = "PopBack" => \A v \in Vecs : PopBack(v) =>
          IF vec[v].size > 0
          THEN /\ vec' = [vec EXCEPT ![v].size = vec[v].size - 1]
               /\ heap' = [heap EXCEPT ![vec[v].buffer][vec[v].size] = Raw]
               /\ heap[vec[v].buffer][vec[v].size] # Raw
          ELSE vec' = vec /\ heap' = heap]_vars

\* PopBack has taken the third element off a block of four
C18_Witness ==
    /\ last.op = "PopBack" /\ last.out = "ok"
    /\ vec[last.v].size = 2 /\ Cells(last.v) = <<1, 0, Raw, Raw>>

\* C19: after Erase at any pos with begin() <= pos <= end(), end() and the
\* empty vector included, no undefined behaviour has happened (only live
\* slots were read and destroyed), Size() has not gone below 0 and
\* Size() <= Capacity() holds.
C19_EraseSafe ==
    last.op = "Erase" =>
        /\ ~ub
        /\ last.out # "ub"
        /\ vec[last.v].size <= vec[last.v].capacity

\* the sequence s after its element of index j (0-based) was moved from
MovedOut(s, j) == [k \in 1..Len(s) |-> IF k = j + 1 THEN MovedFrom ELSE s[k]]

\* C20: Emplace/Insert/PushBack at index i with a reference to element j of
\* the same vector as argument puts at index i the value element j had
\* before the call, on every path; the other elements are in order around
\* it, element j moved-from when the reference was an rvalue.
C20_SelfReference ==
    [][(last'.op = "EmplaceRef" /\ last'.out = "ok") =>
          \A v \in Vecs, i \in 0..HeapCells, j \in 0..HeapCells, mv \in BOOLEAN :
             (last'.ret.offset = i /\ EmplaceRef(v, i, j, mv, 0)) =>
                 /\ Elems(v)'[i + 1] = Elems(v)[j + 1]
                 /\ Elems(v)' = Inserted(IF mv THEN MovedOut(Elems(v), j)
                                               ELSE Elems(v), i, Elems(v)[j + 1])]_vars

\* the second element of <<0, 1>> was passed by reference and emplaced at
\* the front
C20_Witness ==
    /\ last.op = "EmplaceRef" /\ last.out = "ok" /\ last.ret.offset = 0
    /\ vec[last.v].capacity = 4
    /\ Elems(last.v) = <<1, 0, 1>>
====
